---- MODULE Spec2Model ----
(***************************************************************************)
(* Repayment allocation engine of the loan-management back-end:            *)
(* RepaymentService.createRepayment / allocatePayment /                    *)
(* checkLoanCompletion / deleteRepayment (src/src/service/                 *)
(* repayment.service.ts) over the Loan, RepaymentScheduleItem, Repayment   *)
(* and RepaymentAllocation tables.                                         *)
(*                                                                         *)
(* Every awaited prisma call of a handler is one step of the handler       *)
(* (CreateStep, DeleteStep).  The service opens no transaction, so in the  *)
(* interleaved specifications the steps of two calls alternate freely and  *)
(* an aborted call keeps the writes it already made.  In the sequential    *)
(* specification a call is the run of its steps to completion (RunCall).   *)
(* Decimal amounts are integers (minor currency units).                    *)
(***************************************************************************)
EXTENDS Integers, Sequences, FiniteSets, TLC

\* ---------------------------------------------------------------- bounds
NItems == 2
MaxDue == 2
MaxRepayments == 2

\* ----------------------------------------------------------------- enums
PENDING == "PENDING"
PARTIAL == "PARTIAL"
PAID == "PAID"
OVERDUE == "OVERDUE"
ScheduleStatus == {PENDING, PARTIAL, PAID, OVERDUE}

ACTIVE == "ACTIVE"
COMPLETED == "COMPLETED"
LoanStatus ==
  {"DRAFT", "PENDING_APPROVAL", "APPROVED", ACTIVE, COMPLETED,
   "DEFAULTED", "WRITTEN_OFF", "CANCELED"}

ADMIN == "ADMIN"
BRANCH_MANAGER == "BRANCH_MANAGER"
CREDIT_OFFICER == "CREDIT_OFFICER"
Role == {ADMIN, BRANCH_MANAGER, CREDIT_OFFICER}

CASH == "CASH"
TRANSFER == "TRANSFER"

\* ------------------------------------------------------------ identifiers
ItemIds == 1..NItems
LoanIds == {"L1"}
NoLoan == "L0"                 \* a loan id with no row in the store
NoBranch == "none"             \* userBranchId undefined
Undefined == "undefined"       \* an optional field left out of the data
MaxAmount == MaxDue + 1
Amounts == {0 - 1} \cup (0..MaxAmount)

\* error messages thrown by the handlers
OK == "ok"
ErrLoanNotFound == "Loan not found"
ErrLoanNotActive == "Can only make payments on active loans"
ErrRepaymentNotFound == "Repayment not found"
ErrCreditOfficer == "Credit officers cannot delete repayments"
ErrBranch == "You do not have permission to delete this repayment"
ErrWindow == "Cannot delete repayment after 24 hours. Contact admin."
ErrUpdatePermission == "You do not have permission to update this repayment"
ErrUpdateWindow == "Cannot update repayment after 24 hours"

VARIABLES
  loans,        \* Loan table: LoanIds -> [status, closedAt, deleted, branchId]
  items,        \* RepaymentScheduleItem table: ItemIds -> row
  repayments,   \* Repayment table: sequence of rows, id = index
  allocations,  \* RepaymentAllocation table: set of rows
  local,        \* per in-flight call: position and local variables
  last,         \* the last call that returned: [op, repId, result]
  snap          \* the amount supplied to the last successful create and
                \* the schedule and loans before it,
                \* kept while that repayment is the last thing touched

store == <<loans, items, repayments, allocations>>
vars == <<loans, items, repayments, allocations, local, last, snap>>

DB ==
  [loans |-> loans, items |-> items, repayments |-> repayments,
   allocations |-> allocations]


\* ------------------------------------------------- locals of one call
NoItem == [id |-> 0, totalDue |-> 0, paidAmount |-> 0]

Idle ==
  [pc |-> "idle", op |-> "none", loanId |-> NoLoan, amount |-> 0,
   repId |-> 0, role |-> ADMIN, branch |-> NoBranch, expired |-> FALSE,
   userId |-> Undefined, data |-> <<>>,
   list |-> <<>>, idx |-> 0, remaining |-> 0,
   allocs |-> <<>>, item |-> NoItem, result |-> "none"]

Ret(st, loc) == [st |-> st, loc |-> loc]

Throw(st, loc, msg) == Ret(st, [loc EXCEPT !.pc = "done", !.result = msg])

Return(st, loc) == Ret(st, [loc EXCEPT !.pc = "done", !.result = OK])

\* ------------------------------------------------ createRepayment steps
\* slip: the guard on loan.status is missing
createRepayment_findLoan_IgnoresStatus(st, loc) ==
  IF loc.loanId \notin DOMAIN st.loans \/ st.loans[loc.loanId].deleted
    THEN Throw(st, loc, ErrLoanNotFound)
  ELSE Ret(st, [loc EXCEPT !.pc = "c_create"])

\* prisma.loan.findUnique and the two guards on its result
createRepayment_findLoan(st, loc) ==
  IF loc.loanId \notin DOMAIN st.loans \/ st.loans[loc.loanId].deleted
    THEN Throw(st, loc, ErrLoanNotFound)
  ELSE IF st.loans[loc.loanId].status # ACTIVE
    THEN Throw(st, loc, ErrLoanNotActive)
  ELSE Ret(st, [loc EXCEPT !.pc = "c_create"])

\* prisma.repayment.create
createRepayment_create(st, loc) ==
  LET row == [loanId |-> loc.loanId, amount |-> loc.amount, paidAt |-> 1,
              method |-> CASH, reference |-> Undefined, notes |-> Undefined,
              deleted |-> FALSE]
  IN Ret([st EXCEPT !.repayments = Append(@, row)],
         [loc EXCEPT !.pc = "a_find", !.repId = Len(st.repayments) + 1])

\* the sequence column: installment i of the schedule is row i
sequence(i) == i

\* slip: the where-clause lacks loanId
EligibleItems_AnyLoan(st, loanId) ==
  {i \in ItemIds :
     /\ st.items[i].status \in {PENDING, PARTIAL, OVERDUE}
     /\ ~st.items[i].deleted}

\* where-clause of allocatePayment's findMany
EligibleItems(st, loanId) ==
  {i \in ItemIds :
     /\ st.items[i].loanId = loanId
     /\ st.items[i].status \in {PENDING, PARTIAL, OVERDUE}
     /\ ~st.items[i].deleted}

\* slip: the orderBy is left out, the rows come in any order
DueDateOrders_Unordered(st, S) ==
  {o \in [1..Cardinality(S) -> S] :
     \A a, b \in 1..Cardinality(S) : a # b => o[a] # o[b]}

\* slip: orderBy dueDate "desc"
DueDateOrders_Descending(st, S) ==
  {o \in [1..Cardinality(S) -> S] :
     /\ \A a, b \in 1..Cardinality(S) : a # b => o[a] # o[b]
     /\ \A a, b \in 1..Cardinality(S) :
          a < b => st.items[o[a]].dueDate >= st.items[o[b]].dueDate}

\* orderBy: { dueDate: "asc" }: every listing of S with non-decreasing
\* due dates; rows with equal due dates come in any order
DueDateOrders(st, S) ==
  {o \in [1..Cardinality(S) -> S] :
     /\ \A a, b \in 1..Cardinality(S) : a # b => o[a] # o[b]
     /\ \A a, b \in 1..Cardinality(S) :
          a < b => st.items[o[a]].dueDate <= st.items[o[b]].dueDate}

\* prisma.repaymentScheduleItem.findMany: the rows as read, in `order`
allocatePayment_findMany(st, loc, order) ==
  LET row(i) == [id |-> i, totalDue |-> st.items[i].totalDue,
                 paidAmount |-> st.items[i].paidAmount]
  IN Ret(st, [loc EXCEPT !.pc = "a_loop",
                         !.list = [k \in DOMAIN order |-> row(order[k])],
                         !.idx = 1,
                         !.remaining = loc.amount,
                         !.allocs = <<>>])

\* slip: the whole remaining amount goes to the item, outstanding or not
AllocationAmount_Uncapped(remainingAmount, itemOutstanding) ==
  remainingAmount

AllocationAmount(remainingAmount, itemOutstanding) ==
  IF remainingAmount >= itemOutstanding THEN itemOutstanding
  ELSE remainingAmount

\* slip: gt instead of gte, an exactly covered item stays PARTIAL
AllocationStatus_Strict(newPaidAmount, totalDue) ==
  IF newPaidAmount > totalDue THEN PAID ELSE PARTIAL

AllocationStatus(newPaidAmount, totalDue) ==
  IF newPaidAmount >= totalDue THEN PAID ELSE PARTIAL

\* slip: remainingAmount is not reduced by what was allocated
allocatePayment_loop_KeepsRemaining(st, loc) ==
  IF loc.idx > Len(loc.list) \/ loc.remaining <= 0
    THEN Ret(st, [loc EXCEPT !.pc = "a_createMany"])
  ELSE
    LET item == loc.list[loc.idx]
        itemOutstanding == item.totalDue - item.paidAmount
        allocationAmount == AllocationAmount(loc.remaining, itemOutstanding)
        newPaidAmount == item.paidAmount + allocationAmount
        newStatus == AllocationStatus(newPaidAmount, item.totalDue)
    IN IF itemOutstanding <= 0
         THEN Ret(st, [loc EXCEPT !.idx = @ + 1])
       ELSE Ret([st EXCEPT !.items[item.id].paidAmount = newPaidAmount,
                           !.items[item.id].status = newStatus,
                           !.items[item.id].closedAt = (newStatus = PAID)],
                [loc EXCEPT !.idx = @ + 1,
                            !.allocs = Append(@,
                               [repaymentId |-> loc.repId,
                                scheduleItemId |-> item.id,
                                amount |-> allocationAmount])])

\* one iteration of the for loop, with its repaymentScheduleItem.update
allocatePayment_loop(st, loc) ==
  IF loc.idx > Len(loc.list) \/ loc.remaining <= 0
    THEN Ret(st, [loc EXCEPT !.pc = "a_createMany"])
  ELSE
    LET item == loc.list[loc.idx]
        itemOutstanding == item.totalDue - item.paidAmount
        allocationAmount == AllocationAmount(loc.remaining, itemOutstanding)
        newPaidAmount == item.paidAmount + allocationAmount
        newStatus == AllocationStatus(newPaidAmount, item.totalDue)
    IN IF itemOutstanding <= 0
         THEN Ret(st, [loc EXCEPT !.idx = @ + 1])
       ELSE Ret([st EXCEPT !.items[item.id].paidAmount = newPaidAmount,
                           !.items[item.id].status = newStatus,
                           !.items[item.id].closedAt = (newStatus = PAID)],
                [loc EXCEPT !.idx = @ + 1,
                            !.remaining = @ - allocationAmount,
                            !.allocs = Append(@,
                               [repaymentId |-> loc.repId,
                                scheduleItemId |-> item.id,
                                amount |-> allocationAmount])])

\* slip: the allocation rows are never written
allocatePayment_createMany_Skipped(st, loc) ==
  Ret(st, [loc EXCEPT !.pc = "k_count"])

\* prisma.repaymentAllocation.createMany
allocatePayment_createMany(st, loc) ==
  Ret([st EXCEPT !.allocations =
         @ \cup {loc.allocs[k] : k \in DOMAIN loc.allocs}],
      [loc EXCEPT !.pc = "k_count"])

\* slip: the count forgets deletedAt: null
PendingItems_WithDeleted(st, loanId) ==
  Cardinality({i \in ItemIds :
     /\ st.items[i].loanId = loanId
     /\ st.items[i].status # PAID})

\* prisma.repaymentScheduleItem.count of the loan's live items not PAID
PendingItems(st, loanId) ==
  Cardinality({i \in ItemIds :
     /\ st.items[i].loanId = loanId
     /\ st.items[i].status # PAID
     /\ ~st.items[i].deleted})

checkLoanCompletion_count(st, loc) ==
  IF PendingItems(st, loc.loanId) = 0
    THEN Ret(st, [loc EXCEPT !.pc = "k_update"])
  ELSE Return(st, loc)

\* slip: closedAt is stamped but the status is left as it was
checkLoanCompletion_update_KeepsStatus(st, loc) ==
  Return([st EXCEPT !.loans[loc.loanId].closedAt = TRUE], loc)

\* prisma.loan.update to COMPLETED
checkLoanCompletion_update(st, loc) ==
  Return([st EXCEPT !.loans[loc.loanId].status = COMPLETED,
                    !.loans[loc.loanId].closedAt = TRUE],
         loc)


\* ------------------------------------------------ deleteRepayment steps
\* include: { allocations: true }: the repayment's allocation rows
AllocationsOf(st, repId) ==
  {a \in st.allocations : a.repaymentId = repId}

\* no orderBy on the included allocations: any listing of the rows
AllocationOrders(st, repId) ==
  LET S == AllocationsOf(st, repId)
  IN {o \in [1..Cardinality(S) -> S] :
        \A a, b \in 1..Cardinality(S) : a # b => o[a] # o[b]}

\* slip: findUnique without deletedAt: null
deleteRepayment_find_IgnoresDeleted(st, loc, order) ==
  IF loc.repId \notin DOMAIN st.repayments
    THEN Throw(st, loc, ErrRepaymentNotFound)
  ELSE IF loc.role = CREDIT_OFFICER
    THEN Throw(st, loc, ErrCreditOfficer)
  ELSE IF /\ loc.role = BRANCH_MANAGER
          /\ loc.branch # NoBranch
          /\ st.loans[st.repayments[loc.repId].loanId].branchId # loc.branch
    THEN Throw(st, loc, ErrBranch)
  ELSE IF loc.expired
    THEN Throw(st, loc, ErrWindow)
  ELSE Ret(st, [loc EXCEPT !.pc = "d_read",
                           !.loanId = st.repayments[loc.repId].loanId,
                           !.allocs = order,
                           !.idx = 1])

\* prisma.repayment.findUnique and the guards up to the 24 hour window
deleteRepayment_find(st, loc, order) ==
  IF loc.repId \notin DOMAIN st.repayments \/ st.repayments[loc.repId].deleted
    THEN Throw(st, loc, ErrRepaymentNotFound)
  ELSE IF loc.role = CREDIT_OFFICER
    THEN Throw(st, loc, ErrCreditOfficer)
  ELSE IF /\ loc.role = BRANCH_MANAGER
          /\ loc.branch # NoBranch
          /\ st.loans[st.repayments[loc.repId].loanId].branchId # loc.branch
    THEN Throw(st, loc, ErrBranch)
  ELSE IF loc.expired
    THEN Throw(st, loc, ErrWindow)
  ELSE Ret(st, [loc EXCEPT !.pc = "d_read",
                           !.loanId = st.repayments[loc.repId].loanId,
                           !.allocs = order,
                           !.idx = 1])

\* prisma.repaymentScheduleItem.findUnique of the next allocation's item
deleteRepayment_readItem(st, loc) ==
  IF loc.idx > Len(loc.allocs)
    THEN Ret(st, [loc EXCEPT !.pc = "d_soft"])
  ELSE
    LET i == loc.allocs[loc.idx].scheduleItemId
    IN Ret(st, [loc EXCEPT !.pc = "d_write",
                           !.item = [id |-> i,
                                     totalDue |-> st.items[i].totalDue,
                                     paidAmount |-> st.items[i].paidAmount]])

\* slip: an item emptied by the reversal is marked OVERDUE
ReversalStatus_Overdue(newPaidAmount, totalDue) ==
  IF newPaidAmount <= 0 THEN OVERDUE
  ELSE IF newPaidAmount < totalDue THEN PARTIAL
  ELSE PAID

ReversalStatus(newPaidAmount, totalDue) ==
  IF newPaidAmount <= 0 THEN PENDING
  ELSE IF newPaidAmount < totalDue THEN PARTIAL
  ELSE PAID

\* slip: the reversal leaves closedAt as it finds it
deleteRepayment_writeItem_KeepsClosedAt(st, loc) ==
  LET allocation == loc.allocs[loc.idx]
      newPaidAmount == loc.item.paidAmount - allocation.amount
      newStatus == ReversalStatus(newPaidAmount, loc.item.totalDue)
  IN Ret([st EXCEPT !.items[loc.item.id].paidAmount = newPaidAmount,
                    !.items[loc.item.id].status = newStatus],
         [loc EXCEPT !.pc = "d_read", !.idx = @ + 1, !.item = NoItem])

\* prisma.repaymentScheduleItem.update of the item just read
deleteRepayment_writeItem(st, loc) ==
  LET allocation == loc.allocs[loc.idx]
      newPaidAmount == loc.item.paidAmount - allocation.amount
      newStatus == ReversalStatus(newPaidAmount, loc.item.totalDue)
  IN Ret([st EXCEPT !.items[loc.item.id].paidAmount = newPaidAmount,
                    !.items[loc.item.id].status = newStatus,
                    !.items[loc.item.id].closedAt = FALSE],
         [loc EXCEPT !.pc = "d_read", !.idx = @ + 1, !.item = NoItem])

\* slip: the repayment's allocation rows are removed along with it
deleteRepayment_softDelete_DropsAllocations(st, loc) ==
  Ret([st EXCEPT !.repayments[loc.repId].deleted = TRUE,
                 !.allocations = @ \ AllocationsOf(st, loc.repId)],
      [loc EXCEPT !.pc = "d_count"])

\* slip: deletedAt is never set
deleteRepayment_softDelete_Skipped(st, loc) ==
  Ret(st, [loc EXCEPT !.pc = "d_count"])

\* prisma.repayment.update: soft delete
deleteRepayment_softDelete(st, loc) ==
  Ret([st EXCEPT !.repayments[loc.repId].deleted = TRUE],
      [loc EXCEPT !.pc = "d_count"])

\* prisma.repaymentScheduleItem.count at the end of deleteRepayment
deleteRepayment_count(st, loc) ==
  IF PendingItems(st, loc.loanId) > 0
    THEN Ret(st, [loc EXCEPT !.pc = "d_update"])
  ELSE Return(st, loc)

\* slip: the status goes back to ACTIVE but closedAt stays
deleteRepayment_update_KeepsClosedAt(st, loc) ==
  Return([st EXCEPT !.loans[loc.loanId].status = ACTIVE], loc)

\* prisma.loan.update back to ACTIVE
deleteRepayment_update(st, loc) ==
  Return([st EXCEPT !.loans[loc.loanId].status = ACTIVE,
                    !.loans[loc.loanId].closedAt = FALSE],
         loc)

\* ------------------------------------------------ updateRepayment steps
\* prisma.repayment.findUnique with its loan, and the guards up to the
\* 24 hour window
updateRepayment_find(st, loc) ==
  IF loc.repId \notin DOMAIN st.repayments \/ st.repayments[loc.repId].deleted
    THEN Throw(st, loc, ErrRepaymentNotFound)
  ELSE
    LET loan == st.loans[st.repayments[loc.repId].loanId]
    IN IF loc.role = CREDIT_OFFICER /\ loan.assignedOfficerId # loc.userId
         THEN Throw(st, loc, ErrUpdatePermission)
       ELSE IF /\ loc.role = BRANCH_MANAGER
               /\ loc.branch # NoBranch
               /\ loan.branchId # loc.branch
         THEN Throw(st, loc, ErrUpdatePermission)
       ELSE IF loc.expired
         THEN Throw(st, loc, ErrUpdateWindow)
       ELSE Ret(st, [loc EXCEPT !.pc = "u_update"])

\* a field of the update data: undefined leaves the column as it is
Updated(old, new) == IF new = Undefined THEN old ELSE new

\* slip: the amount column is written (reset) along with the metadata
updateRepayment_update_WritesAmount(st, loc) ==
  Return([st EXCEPT
            !.repayments[loc.repId].method = Updated(@, loc.data.method),
            !.repayments[loc.repId].reference = Updated(@, loc.data.reference),
            !.repayments[loc.repId].notes = Updated(@, loc.data.notes),
            !.repayments[loc.repId].amount = 0],
         loc)

\* prisma.repayment.update of method, reference and notes
updateRepayment_update(st, loc) ==
  Return([st EXCEPT
            !.repayments[loc.repId].method = Updated(@, loc.data.method),
            !.repayments[loc.repId].reference = Updated(@, loc.data.reference),
            !.repayments[loc.repId].notes = Updated(@, loc.data.notes)],
         loc)

\* ------------------------------------------------------- calls and steps
StartUpdate(id, data, userRole, userBranchId, userId, expired) ==
  [Idle EXCEPT !.pc = "u_find", !.op = "update", !.repId = id,
               !.data = data, !.role = userRole, !.branch = userBranchId,
               !.userId = userId, !.expired = expired]

StartCreate(loanId, amount) ==
  [Idle EXCEPT !.pc = "c_find", !.op = "create",
               !.loanId = loanId, !.amount = amount]

StartDelete(id, userRole, userBranchId, expired) ==
  [Idle EXCEPT !.pc = "d_find", !.op = "delete", !.repId = id,
               !.role = userRole, !.branch = userBranchId,
               !.expired = expired]

\* what the store may hand to the step at loc.pc: the order of a listing
StepInputs(st, loc) ==
  CASE loc.pc = "a_find" ->
         DueDateOrders(st, EligibleItems(st, loc.loanId))
    [] loc.pc = "d_find" /\ loc.repId \in DOMAIN st.repayments ->
         AllocationOrders(st, loc.repId)
    [] OTHER -> {<<>>}

\* the next awaited call of the handler at loc.pc
Step(st, loc, inp) ==
  CASE loc.pc = "c_find" -> createRepayment_findLoan(st, loc)
    [] loc.pc = "c_create" -> createRepayment_create(st, loc)
    [] loc.pc = "a_find" -> allocatePayment_findMany(st, loc, inp)
    [] loc.pc = "a_loop" -> allocatePayment_loop(st, loc)
    [] loc.pc = "a_createMany" -> allocatePayment_createMany(st, loc)
    [] loc.pc = "k_count" -> checkLoanCompletion_count(st, loc)
    [] loc.pc = "k_update" -> checkLoanCompletion_update(st, loc)
    [] loc.pc = "d_find" -> deleteRepayment_find(st, loc, inp)
    [] loc.pc = "d_read" -> deleteRepayment_readItem(st, loc)
    [] loc.pc = "d_write" -> deleteRepayment_writeItem(st, loc)
    [] loc.pc = "d_soft" -> deleteRepayment_softDelete(st, loc)
    [] loc.pc = "d_count" -> deleteRepayment_count(st, loc)
    [] loc.pc = "d_update" -> deleteRepayment_update(st, loc)
    [] loc.pc = "u_find" -> updateRepayment_find(st, loc)
    [] loc.pc = "u_update" -> updateRepayment_update(st, loc)

\* a call run alone from start to return: every outcome it can have
RECURSIVE RunCall(_, _)
RunCall(st, loc) ==
  IF loc.pc = "done" THEN {Ret(st, loc)}
  ELSE UNION {(LET r == Step(st, loc, inp) IN RunCall(r.st, r.loc)) :
                inp \in StepInputs(st, loc)}


\* ------------------------------------------------------------ the store
Procs == {1, 2}

NoCall == [op |-> "none", repId |-> 0, result |-> "none"]
NoSnapshot ==
  [phase |-> "none", repId |-> 0, amount |-> 0, items |-> <<>>,
   loans |-> <<>>]

\* Schedule rows before any payment.  A soft-deleted row is read by no query
\* of the service, so one soft-deleted row stands for all of them.
ScheduleRows ==
  [loanId : LoanIds, dueDate : 1..NItems, totalDue : 1..MaxDue,
   paidAmount : {0}, status : {PENDING, OVERDUE}, closedAt : {FALSE},
   deleted : {FALSE}]
  \cup
  [loanId : LoanIds, dueDate : {1}, totalDue : {1},
   paidAmount : {0}, status : {PENDING}, closedAt : {FALSE},
   deleted : {TRUE}]

\* A loan with its schedule as activation leaves it: nothing paid yet, each
\* installment PENDING or already marked OVERDUE by the overdue job.
Init ==
  /\ loans \in [LoanIds -> [status : LoanStatus \ {COMPLETED},
                            closedAt : {FALSE},
                            deleted : BOOLEAN,
                            branchId : {"B1"},
                            assignedOfficerId : {"U1"}]]
  /\ items \in [ItemIds -> ScheduleRows]
  /\ repayments = <<>>
  /\ allocations = {}
  /\ local = [p \in Procs |-> Idle]
  /\ last = NoCall
  /\ snap = NoSnapshot

SetStore(st) ==
  /\ loans' = st.loans
  /\ items' = st.items
  /\ repayments' = st.repayments
  /\ allocations' = st.allocations

AllIdle == \A p \in Procs : local[p].pc = "idle"

\* ------------------------------------------ calls executed one at a time
createRepayment(loanId, amount) ==
  /\ AllIdle
  /\ Len(repayments) < MaxRepayments
  /\ \E r \in RunCall(DB, StartCreate(loanId, amount)) :
       /\ SetStore(r.st)
       /\ last' = [op |-> "create", repId |-> r.loc.repId,
                   result |-> r.loc.result]
       /\ snap' = IF r.loc.result = OK
                  THEN [phase |-> "paid", repId |-> r.loc.repId,
                        amount |-> amount, items |-> items,
                        loans |-> loans]
                  ELSE NoSnapshot
  /\ UNCHANGED local

deleteRepayment(id, userRole, userBranchId, expired) ==
  /\ AllIdle
  /\ \E r \in RunCall(DB, StartDelete(id, userRole, userBranchId, expired)) :
       /\ SetStore(r.st)
       /\ last' = [op |-> "delete", repId |-> id, result |-> r.loc.result]
       /\ snap' = IF /\ snap.phase = "paid" /\ snap.repId = id
                     /\ r.loc.result = OK
                  THEN [snap EXCEPT !.phase = "reversed"]
                  ELSE NoSnapshot
  /\ UNCHANGED local

\* the caller is an administrator inside the 24 hour window
Next ==
  \/ \E loanId \in LoanIds \cup {NoLoan}, amount \in Amounts :
       createRepayment(loanId, amount)
  \/ \E id \in 1..MaxRepayments :
       deleteRepayment(id, ADMIN, NoBranch, FALSE)

Spec == Init /\ [][Next]_vars


\* ------------------------------------------------ metadata corrections
updateRepayment(id, data, userRole, userBranchId, userId, expired) ==
  /\ AllIdle
  /\ \E r \in RunCall(DB, StartUpdate(id, data, userRole, userBranchId,
                                      userId, expired)) :
       /\ SetStore(r.st)
       /\ last' = [op |-> "update", repId |-> id, result |-> r.loc.result]
  /\ snap' = NoSnapshot
  /\ UNCHANGED local

\* the update data a caller sends: any of the three fields may be left out
Updates ==
  {[method |-> TRANSFER, reference |-> Undefined, notes |-> Undefined],
   [method |-> Undefined, reference |-> "ref", notes |-> "note"]}

\* the callers: an administrator, the loan's officer and another officer,
\* the manager of the loan's branch, of another branch, and one without
\* a branch id
Callers ==
  {[role |-> ADMIN, branch |-> NoBranch, userId |-> "U0"],
   [role |-> CREDIT_OFFICER, branch |-> "B1", userId |-> "U1"],
   [role |-> CREDIT_OFFICER, branch |-> "B1", userId |-> "U2"],
   [role |-> BRANCH_MANAGER, branch |-> "B1", userId |-> "U3"],
   [role |-> BRANCH_MANAGER, branch |-> "B2", userId |-> "U4"],
   [role |-> BRANCH_MANAGER, branch |-> NoBranch, userId |-> "U5"]}

NextUpd ==
  \/ \E loanId \in LoanIds, amount \in 1..MaxAmount :
       createRepayment(loanId, amount)
  \/ \E id \in 1..MaxRepayments :
       deleteRepayment(id, ADMIN, NoBranch, FALSE)
  \/ \E id \in 1..MaxRepayments, data \in Updates, c \in Callers,
        expired \in BOOLEAN :
       updateRepayment(id, data, c.role, c.branch, c.userId, expired)

\* ------------------------------------------------- the loan's life cycle
\* The loan module, outside this service, moves an ACTIVE loan to DEFAULTED,
\* WRITTEN_OFF or CANCELED.
ClosedByLender == {"DEFAULTED", "WRITTEN_OFF", "CANCELED"}

LoanStatusChange(l, status) ==
  /\ AllIdle
  /\ ~loans[l].deleted
  /\ loans[l].status = ACTIVE
  /\ loans' = [loans EXCEPT ![l].status = status]
  /\ last' = [op |-> "loan", repId |-> 0, result |-> OK]
  /\ snap' = NoSnapshot
  /\ UNCHANGED <<items, repayments, allocations, local>>

NextExt ==
  \/ Next
  \/ \E l \in LoanIds, status \in ClosedByLender : LoanStatusChange(l, status)

SpecExt == Init /\ [][NextExt]_vars

\* ----------------------------- calls interleaved at their store accesses
\* The service wraps no handler in prisma.$transaction: between two awaited
\* store calls of one request the event loop may run those of another.
InFlight(p) == local[p].pc # "idle"

CreatesStarted ==
  Len(repayments)
    + Cardinality({p \in Procs : local[p].pc \in {"c_find", "c_create"}})

BeginCreate(p, loanId, amount) ==
  /\ ~InFlight(p)
  /\ CreatesStarted < MaxRepayments
  /\ local' = [local EXCEPT ![p] = StartCreate(loanId, amount)]
  /\ UNCHANGED <<store, last, snap>>

BeginDelete(p, id) ==
  /\ ~InFlight(p)
  /\ local' = [local EXCEPT ![p] = StartDelete(id, ADMIN, NoBranch, FALSE)]
  /\ UNCHANGED <<store, last, snap>>

\* request p performs its next store access; a call that has returned
\* stays at "done" with its outcome
ProcStep(p) ==
  /\ InFlight(p)
  /\ local[p].pc # "done"
  /\ \E inp \in StepInputs(DB, local[p]) :
       LET r == Step(DB, local[p], inp)
       IN /\ SetStore(r.st)
          /\ local' = [local EXCEPT ![p] = r.loc]
  /\ UNCHANGED <<last, snap>>

\* the caller has its answer; the next request may come in
Finish(p) ==
  /\ local[p].pc = "done"
  /\ local' = [local EXCEPT ![p] = Idle]
  /\ last' = [op |-> local[p].op, repId |-> local[p].repId,
              result |-> local[p].result]
  /\ UNCHANGED <<store, snap>>

\* the request dies between two store accesses (client abort, process
\* crash, an error thrown by a store call): nothing is rolled back
Abort(p) ==
  /\ InFlight(p)
  /\ local[p].pc # "done"
  /\ local' = [local EXCEPT ![p] = Idle]
  /\ last' = [op |-> local[p].op, repId |-> local[p].repId,
              result |-> "aborted"]
  /\ UNCHANGED <<store, snap>>

\* an ACTIVE loan with a schedule of unpaid, live installments
InitOpen ==
  /\ Init
  /\ \A l \in LoanIds : loans[l].status = ACTIVE /\ ~loans[l].deleted
  /\ \A i \in ItemIds : ~items[i].deleted /\ items[i].status = PENDING

\* Payments recorded one at a time, then two requests, one call each, whose
\* store accesses interleave in every order.
NextConc ==
  \/ \E loanId \in LoanIds, amount \in 1..MaxAmount :
       createRepayment(loanId, amount)
  \/ \E p \in Procs, loanId \in LoanIds, amount \in 1..MaxAmount :
       BeginCreate(p, loanId, amount)
  \/ \E p \in Procs, id \in 1..MaxRepayments : BeginDelete(p, id)
  \/ \E p \in Procs : ProcStep(p)

SpecConc == InitOpen /\ [][NextConc]_vars

\* one createRepayment at a time, each free to die at any point
NextAbort ==
  \/ \E loanId \in LoanIds, amount \in 1..MaxAmount :
       BeginCreate(1, loanId, amount)
  \/ ProcStep(1)
  \/ Finish(1)
  \/ Abort(1)

SpecAbort == InitOpen /\ [][NextAbort]_vars

\* ------------------------------------- two loans, schedules of any shape
OtherLoan == "L2"

\* Schedule rows of either loan before any payment, an installment with
\* nothing due (totalDue = 0) included; one soft-deleted row stands for all.
AnyScheduleRows ==
  [loanId : LoanIds \cup {OtherLoan}, dueDate : 1..NItems,
   totalDue : 0..MaxDue, paidAmount : {0}, status : {PENDING, OVERDUE},
   closedAt : {FALSE}, deleted : {FALSE}]
  \cup
  [loanId : LoanIds, dueDate : {1}, totalDue : {1},
   paidAmount : {0}, status : {PENDING}, closedAt : {FALSE},
   deleted : {TRUE}]

InitSched ==
  /\ loans = [l \in LoanIds \cup {OtherLoan} |->
                [status |-> ACTIVE, closedAt |-> FALSE, deleted |-> FALSE,
                 branchId |-> "B1", assignedOfficerId |-> "U1"]]
  /\ items \in [ItemIds -> AnyScheduleRows]
  /\ repayments = <<>>
  /\ allocations = {}
  /\ local = [p \in Procs |-> Idle]
  /\ last = NoCall
  /\ snap = NoSnapshot

NextSched ==
  \/ \E loanId \in LoanIds \cup {OtherLoan}, amount \in Amounts :
       createRepayment(loanId, amount)
  \/ \E id \in 1..MaxRepayments :
       deleteRepayment(id, ADMIN, NoBranch, FALSE)

SpecSched == InitSched /\ [][NextSched]_vars

\* payments, reversals and metadata corrections, one at a time
SpecUpd == InitOpen /\ [][NextUpd]_vars

\* ------------------------------------------------------------- measures
RECURSIVE SumAmounts(_)
SumAmounts(S) ==
  IF S = {} THEN 0
  ELSE LET a == CHOOSE x \in S : TRUE IN a.amount + SumAmounts(S \ {a})

\* allocation rows of item i whose repayment is not soft-deleted
ActiveAllocations(i) ==
  {a \in allocations :
     a.scheduleItemId = i /\ ~repayments[a.repaymentId].deleted}

ActiveAllocated(i) == SumAmounts(ActiveAllocations(i))

AllLivePaid(l) ==
  \A i \in ItemIds :
    items[i].loanId = l /\ ~items[i].deleted => items[i].status = PAID

\* --------------------------------------------------------------- claims

\* C1: calls run one at a time from an unpaid schedule: for every schedule
\* item the amounts of its allocation rows of non-deleted repayments sum to
\* at most the item's totalDue.
C1_Conservation ==
  \A i \in ItemIds : ActiveAllocated(i) <= items[i].totalDue

\* a second payment arrived for a loan whose item 1 was already fully covered
C1_Witness ==
  /\ last.op = "create" /\ last.result = OK /\ last.repId = 2
  /\ snap.phase = "paid"
  /\ snap.items[1].paidAmount = snap.items[1].totalDue
  /\ ActiveAllocated(1) = items[1].totalDue
  /\ ~repayments[1].deleted

\* C2: calls run one at a time: every schedule item has
\* 0 <= paidAmount <= totalDue.
C2_PaidInRange ==
  \A i \in ItemIds :
    0 <= items[i].paidAmount /\ items[i].paidAmount <= items[i].totalDue

\* a payment was reversed and left an item partly paid by another payment
C2_Witness ==
  /\ last.op = "delete" /\ last.result = OK
  /\ \E i \in ItemIds :
       /\ items[i].paidAmount > 0
       /\ items[i].paidAmount < items[i].totalDue
       /\ \E a \in allocations :
            a.scheduleItemId = i /\ a.repaymentId = last.repId

\* C4: calls run one at a time from an unpaid schedule: for every schedule
\* item the amounts of its allocation rows of non-deleted repayments sum to
\* exactly its paidAmount.
C4_AllocationsEqualPaid ==
  \A i \in ItemIds : ActiveAllocated(i) = items[i].paidAmount

\* an item holds money of one live repayment next to a reversed allocation
C4_Witness ==
  \E i \in ItemIds :
    /\ items[i].paidAmount > 0
    /\ \E a \in allocations :
         a.scheduleItemId = i /\ repayments[a.repaymentId].deleted
    /\ \E a \in allocations :
         a.scheduleItemId = i /\ ~repayments[a.repaymentId].deleted


\* items that received an allocation row of repayment r
Touched(r) == {a.scheduleItemId : a \in AllocationsOf(DB, r)}

\* C5: round trip.  A createRepayment immediately followed by the
\* deleteRepayment of the repayment it made leaves every touched schedule
\* item with the paidAmount and the status it had before the payment, and
\* the loan with the status it had before the payment.
C5_RoundTrip ==
  snap.phase = "reversed" =>
    /\ \A i \in Touched(snap.repId) :
         /\ items[i].paidAmount = snap.items[i].paidAmount
         /\ items[i].status = snap.items[i].status
    /\ \A l \in LoanIds : loans[l].status = snap.loans[l].status

\* C8: completion check.  Right after a successful createRepayment the loan
\* is COMPLETED with closedAt set if and only if none of its non-deleted
\* schedule items has a status other than PAID; otherwise it is ACTIVE.
C8_CompletionCheck ==
  last.op = "create" /\ last.result = OK =>
    LET l == repayments[last.repId].loanId
    IN IF AllLivePaid(l)
         THEN loans[l].status = COMPLETED /\ loans[l].closedAt
       ELSE loans[l].status = ACTIVE /\ ~loans[l].closedAt

\* the payment finished the last PARTIAL installment and closed the loan
C8_Witness ==
  /\ last.op = "create" /\ last.result = OK
  /\ snap.phase = "paid"
  /\ \E i \in ItemIds :
       /\ snap.items[i].status = PARTIAL
       /\ items[i].status = PAID
       /\ \A j \in ItemIds \ {i} :
            snap.items[j].status = PAID \/ snap.items[j].deleted
  /\ loans[repayments[last.repId].loanId].status = COMPLETED

\* C9: calls run one at a time: a COMPLETED loan has every non-deleted
\* schedule item PAID, and right after a deleteRepayment that leaves a
\* non-deleted item not PAID the loan is ACTIVE with closedAt cleared.
C9_CompletedMeansPaid ==
  /\ \A l \in LoanIds : loans[l].status = COMPLETED => AllLivePaid(l)
  /\ last.op = "delete" /\ last.result = OK =>
       LET l == repayments[last.repId].loanId
       IN ~AllLivePaid(l) => loans[l].status = ACTIVE /\ ~loans[l].closedAt

\* the reversed repayment had paid every installment in full, so the loan
\* was COMPLETED when the reversal started, and it is open again
C9_Witness ==
  /\ last.op = "delete" /\ last.result = OK
  /\ \A i \in ItemIds :
       /\ ~items[i].deleted
       /\ \E a \in allocations :
            /\ a.repaymentId = last.repId /\ a.scheduleItemId = i
            /\ a.amount = items[i].totalDue
  /\ loans[repayments[last.repId].loanId].status = ACTIVE


BothReturned == \A p \in Procs : local[p].pc = "done"

\* C3: two createRepayment calls on one loan whose store accesses
\* interleave: once both have returned, every schedule item has active
\* allocations summing to at most totalDue and paidAmount at most totalDue.
C3_NoDoubleAllocation ==
  BothReturned /\ (\A p \in Procs : local[p].op = "create") =>
    \A i \in ItemIds :
      /\ ActiveAllocated(i) <= items[i].totalDue
      /\ items[i].paidAmount <= items[i].totalDue

\* C6: failure atomicity of createRepayment.  When no call is in flight,
\* a call that died has left no Repayment row behind, and no schedule item
\* has a paidAmount other than the sum of its active allocation rows.
C6_FailureAtomicity ==
  AllIdle =>
    /\ last.result = "aborted" => last.repId \notin DOMAIN repayments
    /\ \A i \in ItemIds : items[i].paidAmount = ActiveAllocated(i)

\* C7: isolation.  In every state a reader can see, also between the store
\* accesses of calls in flight, each schedule item's paidAmount is the sum
\* of its active allocations and the loan is COMPLETED exactly when all its
\* non-deleted items are PAID.
C7_Isolation ==
  /\ \A i \in ItemIds : items[i].paidAmount = ActiveAllocated(i)
  /\ \A l \in LoanIds : loans[l].status = COMPLETED <=> AllLivePaid(l)

\* C10: a deleteRepayment that runs while the loan is not COMPLETED leaves
\* the loan's status and closedAt as they were.
C10_RevertOnlyFromCompleted ==
  [][\A r \in DOMAIN repayments :
       LET l == repayments[r].loanId
       IN /\ ~repayments[r].deleted
          /\ repayments'[r].deleted
          /\ loans[l].status # COMPLETED
          => /\ loans'[l].status = loans[l].status
             /\ loans'[l].closedAt = loans[l].closedAt]_vars

\* ---------------------------------------------- the walk of one payment
\* the loan of the repayment made by the last createRepayment
PaidLoan == repayments[last.repId].loanId

\* the items the payment's findMany selected, as they were before it
EligibleBefore == EligibleItems([items |-> snap.items], PaidLoan)

JustPaid == last.op = "create" /\ last.result = OK /\ snap.phase = "paid"

DistinctDueDates(S) ==
  \A i, j \in S : i # j => snap.items[i].dueDate # snap.items[j].dueDate

FullyPaid(i) ==
  items[i].status = PAID /\ items[i].paidAmount = items[i].totalDue

\* C11: earliest due first.  Right after a successful createRepayment on a
\* loan whose eligible items (PENDING, PARTIAL or OVERDUE, not deleted) had
\* pairwise distinct due dates, every item that received an allocation of
\* this repayment was eligible, and every eligible item with an earlier due
\* date is PAID with paidAmount = totalDue, whatever the sequence numbers.
C11_EarliestDueFirst ==
  JustPaid /\ DistinctDueDates(EligibleBefore) =>
    /\ Touched(last.repId) \subseteq EligibleBefore
    /\ \A i \in Touched(last.repId), j \in EligibleBefore :
         snap.items[j].dueDate < snap.items[i].dueDate => FullyPaid(j)

\* the installment with the higher sequence number was due first and the
\* payment reached both
C11_Witness ==
  /\ JustPaid
  /\ EligibleBefore = ItemIds
  /\ Touched(last.repId) = ItemIds
  /\ \E i, j \in ItemIds :
       /\ sequence(i) < sequence(j)
       /\ snap.items[j].dueDate < snap.items[i].dueDate
       /\ items[i].status = PARTIAL

\* C12: tie-break by sequence.  Right after a successful createRepayment,
\* an item that received an allocation of this repayment has every eligible
\* item with the same due date and a lower sequence number PAID with
\* paidAmount = totalDue.
C12_TieBreakBySequence ==
  JustPaid =>
    \A i \in Touched(last.repId), j \in EligibleBefore :
      /\ snap.items[j].dueDate = snap.items[i].dueDate
      /\ sequence(j) < sequence(i)
      => FullyPaid(j)

Min(a, b) == IF a <= b THEN a ELSE b

\* total of totalDue - paidAmount over the items of S before the payment
RECURSIVE OutstandingBefore(_)
OutstandingBefore(S) ==
  IF S = {} THEN 0
  ELSE LET i == CHOOSE x \in S : TRUE
       IN (snap.items[i].totalDue - snap.items[i].paidAmount)
            + OutstandingBefore(S \ {i})

\* the allocation rows of the repayment just made
NewAllocations == AllocationsOf(DB, last.repId)

\* C13: allocation amounts.  Right after a successful createRepayment of a
\* positive amount A: the repayment has at most one allocation row per
\* item, each positive, at most the item's outstanding before the payment
\* and added to its paidAmount; the rows sum to min(A, total outstanding of
\* the eligible items); an allocated item that is not paid in full is
\* PARTIAL, is the only such item and no allocated item is due after it.
C13_AllocationAmounts ==
  JustPaid /\ snap.amount > 0 =>
    /\ Cardinality(NewAllocations) = Cardinality(Touched(last.repId))
    /\ \A a \in NewAllocations :
         LET i == a.scheduleItemId
         IN /\ a.amount > 0
            /\ a.amount <= snap.items[i].totalDue - snap.items[i].paidAmount
            /\ items[i].paidAmount = snap.items[i].paidAmount + a.amount
    /\ SumAmounts(NewAllocations)
         = Min(snap.amount, OutstandingBefore(EligibleBefore))
    /\ \A i \in Touched(last.repId) :
         ~FullyPaid(i) =>
           /\ items[i].status = PARTIAL
           /\ \A j \in Touched(last.repId) \ {i} :
                /\ FullyPaid(j)
                /\ snap.items[j].dueDate <= snap.items[i].dueDate

\* a payment smaller than the total outstanding paid the first installment
\* in full and part of the second; the loan stays ACTIVE
C13_Witness ==
  /\ JustPaid
  /\ snap.amount < OutstandingBefore(EligibleBefore)
  /\ \E i, j \in Touched(last.repId) :
       /\ snap.items[i].dueDate < snap.items[j].dueDate
       /\ FullyPaid(i)
       /\ items[j].status = PARTIAL
  /\ loans[PaidLoan].status = ACTIVE

\* C14: overpayment.  Right after a successful createRepayment whose amount
\* exceeds the total outstanding of the eligible items: every eligible item
\* is PAID with paidAmount = totalDue, the loan is COMPLETED, the
\* repayment's allocation rows sum to that total outstanding, and the
\* Repayment row carries the amount that was supplied.
C14_Overpayment ==
  JustPaid /\ snap.amount > OutstandingBefore(EligibleBefore) =>
    /\ \A i \in EligibleBefore : FullyPaid(i)
    /\ loans[PaidLoan].status = COMPLETED
    /\ SumAmounts(NewAllocations) = OutstandingBefore(EligibleBefore)
    /\ Touched(last.repId) = EligibleBefore
    /\ repayments[last.repId].amount = snap.amount

\* the payment exceeded what two open installments, one of them PARTIAL,
\* still needed
C14_Witness ==
  /\ JustPaid
  /\ EligibleBefore = ItemIds
  /\ \E i \in ItemIds : snap.items[i].status = PARTIAL
  /\ snap.amount > OutstandingBefore(EligibleBefore)
  /\ repayments[last.repId].amount > SumAmounts(NewAllocations)
  /\ loans[PaidLoan].status = COMPLETED

\* ------------------------------------------------------ rejected calls
\* the loan exists and is not soft-deleted
LoanFound(l) == l \in DOMAIN loans /\ ~loans[l].deleted

\* C15: in every state reached by calls and loan status changes run one at
\* a time, a createRepayment on a loan that does not exist or is
\* soft-deleted returns 'Loan not found', one on a loan whose status is not
\* ACTIVE returns 'Loan is not active', and either leaves every table
\* (repayments, allocations, schedule items, loans) as it was.
C15_RejectedLoan ==
  \A loanId \in LoanIds \cup {NoLoan}, amount \in Amounts :
    ~(LoanFound(loanId) /\ loans[loanId].status = ACTIVE) =>
      \A r \in RunCall(DB, StartCreate(loanId, amount)) :
        /\ r.st = DB
        /\ r.loc.result = IF LoanFound(loanId) THEN ErrLoanNotActive
                          ELSE ErrLoanNotFound

\* a payment was refused on a loan that the lender had closed while one of
\* its installments was partly paid
C15_Witness ==
  /\ last.op = "create" /\ last.result = ErrLoanNotActive
  /\ \E l \in LoanIds : loans[l].status \in ClosedByLender
  /\ Len(repayments) = 1
  /\ \E i \in ItemIds : items[i].status = PARTIAL

\* C16: no createRepayment with an amount of zero or less succeeds: every
\* Repayment row has a positive amount, and the amount supplied to the last
\* successful createRepayment was positive.
C16_InvalidAmount ==
  /\ \A r \in DOMAIN repayments : repayments[r].amount > 0
  /\ JustPaid => snap.amount > 0

\* what repayment r allocated to item i
AllocatedTo(r, i) ==
  SumAmounts({a \in AllocationsOf(DB, r) : a.scheduleItemId = i})

\* C17: calls run one at a time.  A deleteRepayment of a repayment that
\* does not exist or is already soft-deleted returns 'Repayment not found'
\* and leaves every table as it was; and whenever a schedule item's
\* paidAmount goes down, a repayment that was not soft-deleted becomes
\* soft-deleted in the same call and the item loses exactly what that
\* repayment had allocated to it, so no repayment is subtracted twice.
C17_DeleteOnlyOnce ==
  [][/\ /\ last'.op = "delete"
        /\ \/ last'.repId \notin DOMAIN repayments
           \/ repayments[last'.repId].deleted
        => last'.result = ErrRepaymentNotFound /\ UNCHANGED store
     /\ \A i \in ItemIds :
          items'[i].paidAmount < items[i].paidAmount =>
            \E r \in DOMAIN repayments :
              /\ ~repayments[r].deleted
              /\ repayments'[r].deleted
              /\ items'[i].paidAmount
                   = items[i].paidAmount - AllocatedTo(r, i)]_vars

\* a second deleteRepayment of a repayment was refused while one of the
\* items it had paid still holds money of another repayment
C17_Witness ==
  /\ last.op = "delete" /\ last.result = ErrRepaymentNotFound
  /\ last.repId \in DOMAIN repayments
  /\ repayments[last.repId].deleted
  /\ \E i \in Touched(last.repId) : items[i].paidAmount > 0

\* C18: two deleteRepayment calls for the same repayment whose store
\* accesses interleave: once both have returned, no schedule item has a
\* negative paidAmount and every paidAmount is the sum of the item's
\* active allocations.
C18_ConcurrentDeleteOnce ==
  /\ BothReturned
  /\ \A p \in Procs : local[p].op = "delete"
  /\ \A p, q \in Procs : local[p].repId = local[q].repId
  => \A i \in ItemIds :
       /\ items[i].paidAmount >= 0
       /\ items[i].paidAmount = ActiveAllocated(i)

\* C19: status consistency.  With calls run one at a time from an unpaid
\* schedule, every non-deleted schedule item is PAID if and only if
\* paidAmount >= totalDue, PARTIAL if and only if 0 < paidAmount < totalDue,
\* and PENDING or OVERDUE otherwise.
C19_StatusConsistency ==
  \A i \in ItemIds :
    ~items[i].deleted =>
      /\ items[i].status = PAID <=> items[i].paidAmount >= items[i].totalDue
      /\ items[i].status = PARTIAL <=>
           /\ 0 < items[i].paidAmount
           /\ items[i].paidAmount < items[i].totalDue
      /\ items[i].paidAmount <= 0 => items[i].status \in {PENDING, OVERDUE}

\* a reversal took an item back from PAID to PARTIAL next to a PAID one
C19_Witness ==
  /\ last.op = "delete" /\ last.result = OK
  /\ \E i \in ItemIds : items[i].status = PAID /\ ~items[i].deleted
  /\ \E j \in Touched(last.repId) :
       items[j].status = PARTIAL /\ items[j].paidAmount > 0

\* C20: status transitions, calls run one at a time.  A createRepayment
\* never lowers a paidAmount and changes a status only from PENDING,
\* OVERDUE or PARTIAL to PARTIAL or PAID; a deleteRepayment never raises a
\* paidAmount and changes a status only from PAID or PARTIAL to PARTIAL or
\* PENDING.
C20_StatusTransitions ==
  [][\A i \in ItemIds :
       /\ last'.op = "create" =>
            /\ items'[i].paidAmount >= items[i].paidAmount
            /\ items'[i].status # items[i].status =>
                 /\ items[i].status \in {PENDING, OVERDUE, PARTIAL}
                 /\ items'[i].status \in {PARTIAL, PAID}
       /\ last'.op = "delete" =>
            /\ items'[i].paidAmount <= items[i].paidAmount
            /\ items'[i].status # items[i].status =>
                 /\ items[i].status \in {PAID, PARTIAL}
                 /\ items'[i].status \in {PARTIAL, PENDING}]_vars

\* one reversal left an item it had completed PARTIAL and another PENDING
C20_Witness ==
  /\ last.op = "delete" /\ last.result = OK
  /\ \E i, j \in Touched(last.repId) :
       /\ items[i].status = PARTIAL
       /\ items[j].status = PENDING
       /\ snap.phase = "reversed"
       /\ snap.items[i].status = PARTIAL

\* ------------------------------------------------- effects and frames
JustReversed == last.op = "delete" /\ last.result = OK

\* C21: closedAt tracks PAID.  Right after a successful createRepayment or
\* deleteRepayment run on its own, every schedule item holding an allocation
\* of that repayment has closedAt set if its status is PAID and cleared
\* otherwise.
C21_ClosedAtTracksPaid ==
  (last.op = "create" /\ last.result = OK) \/ JustReversed =>
    \A i \in Touched(last.repId) :
      items[i].closedAt <=> items[i].status = PAID

\* a reversal reopened an item that was PAID and closed; another item of
\* the loan is still PAID and closed
C21_Witness ==
  /\ JustReversed
  /\ \E i \in Touched(last.repId) :
       items[i].status = PARTIAL /\ ~items[i].closedAt
  /\ \E j \in ItemIds : items[j].status = PAID /\ items[j].closedAt

\* C22: calls run one at a time.  A deleteRepayment leaves the set of
\* allocation rows, amounts included, exactly as it was, and a successful
\* one marks its Repayment row deleted and changes no other Repayment row.
C22_AllocationsKept ==
  [][last'.op = "delete" =>
       /\ allocations' = allocations
       /\ DOMAIN repayments' = DOMAIN repayments
       /\ last'.result = OK =>
            /\ repayments'[last'.repId].deleted
            /\ \A r \in DOMAIN repayments \ {last'.repId} :
                 repayments'[r] = repayments[r]]_vars

\* a reversed repayment still has its allocation rows, on both items
C22_Witness ==
  /\ JustReversed
  /\ repayments[last.repId].deleted
  /\ Touched(last.repId) = ItemIds

\* C23: calls run one at a time.  No createRepayment, deleteRepayment or
\* updateRepayment changes the amount, loanId or paidAt of an existing
\* Repayment row; an updateRepayment changes no schedule item, allocation
\* or loan, no deletion mark, and no Repayment row other than its own.
C23_AmountImmutable ==
  [][\A r \in DOMAIN repayments :
       /\ r \in DOMAIN repayments'
       /\ repayments'[r].amount = repayments[r].amount
       /\ repayments'[r].loanId = repayments[r].loanId
       /\ repayments'[r].paidAt = repayments[r].paidAt
       /\ last'.op = "update" =>
            /\ items' = items
            /\ allocations' = allocations
            /\ loans' = loans
            /\ repayments'[r].deleted = repayments[r].deleted
            /\ r # last'.repId => repayments'[r] = repayments[r]]_vars

\* the method, then the reference and notes of a repayment with
\* allocations were corrected
C23_Witness ==
  /\ last.op = "update" /\ last.result = OK
  /\ repayments[last.repId].method = TRANSFER
  /\ repayments[last.repId].reference = "ref"
  /\ Touched(last.repId) # {}
  /\ repayments[last.repId].amount > 0

\* ------------------------------------------------ interleaved requests
BothCreate == BothReturned /\ \A p \in Procs : local[p].op = "create"

RECURSIVE SumRepaid(_)
SumRepaid(R) ==
  IF R = {} THEN 0
  ELSE LET r == CHOOSE x \in R : TRUE
       IN repayments[r].amount + SumRepaid(R \ {r})

RECURSIVE SumTotalDue(_)
SumTotalDue(S) ==
  IF S = {} THEN 0
  ELSE LET i == CHOOSE x \in S : TRUE
       IN items[i].totalDue + SumTotalDue(S \ {i})

\* C24: two createRepayment calls whose store accesses interleave on a
\* schedule that started unpaid, no reversal made: once both have returned,
\* each accepted request has exactly one Repayment row of its own, each
\* result is success, a business-rule error or a transient failure, and
\* the accepted payments have the effect of allocations run one after the
\* other: all allocation rows together sum to the smaller of the amounts
\* paid in and the total due of the schedule.
C24_ConflictsRetried ==
  BothCreate =>
    /\ \A p \in Procs :
         /\ local[p].result \in
              {OK, ErrLoanNotFound, ErrLoanNotActive, "transient failure"}
         /\ local[p].result = OK => local[p].repId \in DOMAIN repayments
    /\ \A p, q \in Procs :
         p # q /\ local[p].result = OK /\ local[q].result = OK
           => local[p].repId # local[q].repId
    /\ SumAmounts(allocations)
         = Min(SumRepaid(DOMAIN repayments), SumTotalDue(ItemIds))

\* C25: no lost update.  Two createRepayment calls on one loan whose store
\* accesses interleave: once both have returned, every schedule item's
\* paidAmount is the sum of the amounts of its active allocation rows.
C25_NoLostUpdate ==
  BothCreate =>
    \A i \in ItemIds : items[i].paidAmount = ActiveAllocated(i)

\* C26: a createRepayment and a deleteRepayment of an earlier repayment of
\* the same loan whose store accesses interleave: once both have returned,
\* the loan is COMPLETED if and only if all its non-deleted schedule items
\* are PAID.
C26_QuiescentLoanStatus ==
  /\ BothReturned
  /\ \E p, q \in Procs :
       /\ local[p].op = "create"
       /\ local[q].op = "delete"
       /\ local[q].repId # local[p].repId
       /\ local[q].repId \in DOMAIN repayments
  => \A l \in LoanIds : loans[l].status = COMPLETED <=> AllLivePaid(l)

\* C27: frame of allocation, calls run one at a time on two loans.  A
\* createRepayment that fails changes no schedule item and no allocation
\* row.  One that succeeds on loan L changes only paidAmount, status and
\* closedAt, and only of items of L that were not deleted, were PENDING,
\* PARTIAL or OVERDUE and had totalDue - paidAmount > 0; every other item
\* and every existing allocation row stays as it was, and every new
\* allocation row belongs to the new repayment, points to an item of L and
\* has a positive amount.
C27_AllocationFrame ==
  [][last'.op = "create" =>
       IF last'.result # OK
         THEN items' = items /\ allocations' = allocations
       ELSE
         LET L == repayments'[last'.repId].loanId
         IN /\ \A i \in ItemIds :
                 items'[i] # items[i] =>
                   /\ items[i].loanId = L
                   /\ ~items[i].deleted
                   /\ items[i].status \in {PENDING, PARTIAL, OVERDUE}
                   /\ items[i].totalDue - items[i].paidAmount > 0
                   /\ items'[i] = [items[i] EXCEPT
                                     !.paidAmount = items'[i].paidAmount,
                                     !.status = items'[i].status,
                                     !.closedAt = items'[i].closedAt]
                   /\ \E a \in allocations' \ allocations :
                        a.scheduleItemId = i
            /\ allocations \subseteq allocations'
            /\ \A a \in allocations' \ allocations :
                 /\ a.repaymentId = last'.repId
                 /\ items[a.scheduleItemId].loanId = L
                 /\ a.amount > 0]_vars

\* a payment larger than the open installment of its loan that it paid
\* left the open installment of the other loan untouched
C27_Witness ==
  /\ last.op = "create" /\ last.result = OK
  /\ \E i \in Touched(last.repId), j \in ItemIds :
       /\ items[j].loanId # items[i].loanId
       /\ ~items[j].deleted
       /\ items[j].status \in {PENDING, OVERDUE}
       /\ items[j].totalDue > 0
       /\ repayments[last.repId].amount > items[i].totalDue

\* the non-deleted schedule items of loan l
LiveItems(l) == {i \in ItemIds : items[i].loanId = l /\ ~items[i].deleted}

\* the repayments recorded on loan l
RepaymentsOf(l) == {r \in DOMAIN repayments : repayments[r].loanId = l}

\* C28: payments complete the loan.  For a loan that started ACTIVE with an
\* unpaid schedule of any shape (an installment with totalDue = 0 allowed)
\* and has at least one non-deleted item: once createRepayment calls of
\* positive amounts, none of them reversed, have recorded amounts summing
\* to at least the total due of its non-deleted items, every non-deleted
\* item is PAID and the loan is COMPLETED.
C28_PaymentsComplete ==
  \A l \in LoanIds \cup {OtherLoan} :
    /\ LiveItems(l) # {}
    /\ RepaymentsOf(l) # {}
    /\ \A r \in RepaymentsOf(l) :
         ~repayments[r].deleted /\ repayments[r].amount > 0
    /\ SumRepaid(RepaymentsOf(l)) >= SumTotalDue(LiveItems(l))
    => AllLivePaid(l) /\ loans[l].status = COMPLETED

\* --------------------------------------------------- shape of a schedule
Live == {i \in ItemIds : ~items[i].deleted}

DistinctLiveDueDates ==
  \A i, j \in Live : i # j => items[i].dueDate # items[j].dueDate

\* at most one item PARTIAL, and everything due before an item that holds
\* money is PAID
PaidPrefix ==
  /\ Cardinality({i \in Live : items[i].status = PARTIAL}) <= 1
  /\ \A i, j \in Live :
       items[j].dueDate < items[i].dueDate /\ items[i].paidAmount > 0
         => items[j].status = PAID

\* the reversed repayments are the most recent ones
ReversedAreLatest ==
  \A r, q \in DOMAIN repayments :
    repayments[r].deleted /\ ~repayments[q].deleted => q < r

\* C29 as stated: calls run one at a time from an unpaid schedule with
\* distinct due dates: after any createRepayment and deleteRepayment calls,
\* whatever the order in which repayments are reversed, at most one item is
\* PARTIAL and every item due earlier than an item with paidAmount > 0 is
\* PAID.
C29_PaidPrefixAnyOrder ==
  DistinctLiveDueDates => PaidPrefix

\* C29 amended: the same shape, as long as every reversed repayment is more
\* recent than every repayment still in force.
C29_PaidPrefix ==
  DistinctLiveDueDates /\ ReversedAreLatest => PaidPrefix

\* the most recent of two payments was reversed and left the first
\* installment PAID and the second PARTIAL
C29_Witness ==
  /\ JustReversed
  /\ DistinctLiveDueDates
  /\ Len(repayments) = 2
  /\ ~repayments[1].deleted /\ repayments[2].deleted
  /\ \E i, j \in Live :
       /\ items[j].dueDate < items[i].dueDate
       /\ items[j].status = PAID
       /\ items[i].status = PARTIAL
       /\ i \in Touched(2)

\* ------------------------------------------------ who may reverse a payment
\* payments recorded one at a time and reversals asked by every caller,
\* inside and outside the 24 hour window
NextAuth ==
  \/ \E loanId \in LoanIds, amount \in 1..MaxAmount :
       createRepayment(loanId, amount)
  \/ \E id \in 1..MaxRepayments, c \in Callers, expired \in BOOLEAN :
       deleteRepayment(id, c.role, c.branch, expired)

SpecAuth == InitOpen /\ [][NextAuth]_vars

\* the outcomes of deleteRepayment(id) asked by caller c in this state
DeleteOutcomes(id, c, expired) ==
  RunCall(DB, StartDelete(id, c.role, c.branch, expired))

\* C30: deleteRepayment by a CREDIT_OFFICER always fails; by a
\* BRANCH_MANAGER it succeeds only when the repayment's loan belongs to the
\* manager's branch, a manager without a branch id included; every denied
\* call leaves schedule items, allocations, repayments and loans unchanged.
C30_DeleteAuthorization ==
  AllIdle =>
    \A id \in DOMAIN repayments, c \in Callers, expired \in BOOLEAN :
      \A r \in DeleteOutcomes(id, c, expired) :
        /\ c.role = CREDIT_OFFICER => r.loc.result # OK
        /\ c.role = BRANCH_MANAGER /\ r.loc.result = OK
             => loans[repayments[id].loanId].branchId = c.branch
        /\ r.loc.result # OK => r.st = DB

====
